---------------------------- MODULE Spec2Model ----------------------------
(***************************************************************************)
(* PartsTableComponent (src/parts-table/parts-table.component.ts): the     *)
(* parts matrix built from the categories input and the two registries     *)
(* (selectedParts, checkedParts) keyed by the composite key of getUKey.    *)
(*                                                                         *)
(* JavaScript values are modelled as follows.                              *)
(*   - an object is a record whose DOMAIN is the set of its own            *)
(*     properties, so a part may or may not carry qty, isExcluded,         *)
(*     categoryId, torId; object spread {a, ...p} is  p @@ [a |-> ..];     *)
(*   - a value that may be undefined/null is a sequence of length 0        *)
(*     (undefined) or 1 (the value): see undefined, Some, ValueOf;         *)
(*   - a Map is a function from its keys to its values;                    *)
(*   - a plain object used as a dictionary (partsMatrix and its rows)      *)
(*     also keeps its insertion order, which Object.keys depends on.       *)
(***************************************************************************)
EXTENDS Integers, Sequences, FiniteSets, TLC

VARIABLES
    categories,      \* @Input() categories (optional list of SNRCategory)
    uKeyPrefix,      \* @Input() uKeyPrefix
    torColumns,      \* optional list of repair-type ids (undefined before a build)
    partsMatrix,     \* optional dictionary torId -> categoryId -> DividedParts
    selectedParts,   \* Map<string, CategorizedPart>
    checkedParts,    \* Map<string, CategorizedPart>
    categoriesById,  \* dictionary categoryId -> {categoryId, title}
    torsById,        \* dictionary torId -> {torId, title}
    emitted,         \* events emitted on partSelectionChanged by the last handler
    last             \* the last handler call: its name, arguments, and outcome

vars == <<categories, uKeyPrefix, torColumns, partsMatrix, selectedParts,
          checkedParts, categoriesById, torsById, emitted, last>>

-----------------------------------------------------------------------------
(* Bounds of the model *)

\* largest quantity passed to qtyChanged
MaxQty == 1
\* integer-like property names are recognised up to this number
MaxArrayIndex == 9

-----------------------------------------------------------------------------
(* Optional values and small helpers *)

undefined == <<>>
Some(v) == <<v>>
ValueOf(o) == o[1]
Truthy(o) == o # undefined

Range(s) == {s[i] : i \in 1..Len(s)}

EmptyMap == <<>>
MapSet(m, k, v) == [x \in DOMAIN m \cup {k} |-> IF x = k THEN v ELSE m[x]]
MapDelete(m, k) == [x \in DOMAIN m \ {k} |-> m[x]]

\* `${o.f}` in a template literal: a missing property prints as "undefined"
TemplateField(o, f) == IF f \in DOMAIN o THEN o[f] ELSE "undefined"


\* A dictionary object: its own keys in insertion order, and their values.
EmptyDict == [keys |-> <<>>, at |-> EmptyMap]
DictHas(d, k) == k \in DOMAIN d.at
DictSet(d, k, v) ==
    [keys |-> IF DictHas(d, k) THEN d.keys ELSE Append(d.keys, k),
     at   |-> MapSet(d.at, k, v)]

-----------------------------------------------------------------------------
(* The inputs the handlers are exercised with *)

Part(partNumber, sOS) == [partNumber |-> partNumber, sOS |-> sOS]
TOR(torId, partsIncluded, partsExcluded) ==
    [torId |-> torId, title |-> "TOR " \o torId,
     partsIncluded |-> partsIncluded, partsExcluded |-> partsExcluded]
Category(categoryId, repairTypes) ==
    [categoryId |-> categoryId, title |-> "Category " \o categoryId,
     repairTypes |-> repairTypes]
\* a category whose repairTypes is null or missing
CategoryWithoutRepairTypes(categoryId) ==
    [categoryId |-> categoryId, title |-> "Category " \o categoryId]
PricedPart(categoryId, torId, partNumber, sOS, price) ==
    [categoryId |-> categoryId, torId |-> torId, partNumber |-> partNumber,
     sOS |-> sOS, qty |-> 1, price |-> price]

P1A == Part("P1", "A")
P2B == Part("P2", "B")
\* two different parts whose part number and sOS concatenate alike
PUnderscoreInNumber == Part("P1_A", "B")
PUnderscoreInSOS == Part("P1", "A_B")

\* a part record that carries a categoryId and a torId of its own
P1ACategorized == [categoryId |-> "C9", torId |-> "T9"] @@ P1A

CatalogScenario == << Category("C1", << TOR("T1", <<P1A>>, <<P2B>>) >>) >>
\* "2" is in two categories; "T1" and "1" are in one each, "T1" met first;
\* C3 has no repair-types; the part of C2 carries ids of its own
CatalogColumns ==
    << Category("C1", << TOR("T1", <<P1A>>, <<>>),
                         TOR("2", <<>>, <<P2B>>),
                         TOR("1", <<>>, <<>>) >>),
       Category("C2", << TOR("2", <<P1ACategorized>>, <<>>) >>),
       Category("C3", <<>>) >>
\* a category without repairTypes whose id the next category shares, a cell
\* whose two parts differ only in where the underscore falls, and a category
\* without repairTypes whose id is its own
CatalogMalformed ==
    << CategoryWithoutRepairTypes("C1"),
       Category("C1", << TOR("T1", <<PUnderscoreInNumber>>, <<PUnderscoreInSOS>>) >>),
       CategoryWithoutRepairTypes("C0") >>
CatalogEmpty == <<>>

Catalogs == {CatalogScenario, CatalogColumns, CatalogMalformed, CatalogEmpty}

\* the first and the last element have the same key
PricesScenario ==
    << PricedPart("C1", "T1", "P1", "A", 10), PricedPart("C1", "T1", "P2", "B", 20),
       PricedPart("C1", "T1", "P1", "A", 30) >>
PriceLists == {PricesScenario, <<>>}

Prefixes == {"snr"}
Quantities == 0..MaxQty

-----------------------------------------------------------------------------
(* getUKey, lines 72-74 *)

\* a variant that leaves the sOS out of the key
GetUKey_WithoutSOS(prefix, categoryId, torId, part) ==
    prefix \o "_" \o categoryId \o "_" \o torId \o "_" \o TemplateField(part, "partNumber")

GetUKey(prefix, categoryId, torId, part) ==
    prefix \o "_" \o categoryId \o "_" \o torId \o "_"
        \o TemplateField(part, "partNumber") \o "_" \o TemplateField(part, "sOS")

-----------------------------------------------------------------------------
(* isAllPartsInCategorySelected, lines 146-151.  category.repairTypes.map   *)
(* raises a TypeError when the category has no repairTypes.                 *)

HasRepairTypes(category) == "repairTypes" \in DOMAIN category

\* a variant that looks at the included parts only
IsAllPartsInTORSelected_IncludedOnly(sel, prefix, categoryId, tor) ==
    \A i \in 1..Len(tor.partsIncluded) :
        GetUKey(prefix, categoryId, tor.torId, tor.partsIncluded[i]) \in DOMAIN sel

IsAllPartsInTORSelected(sel, prefix, categoryId, tor) ==
    LET parts == tor.partsIncluded \o tor.partsExcluded
    IN  \A i \in 1..Len(parts) :
            GetUKey(prefix, categoryId, tor.torId, parts[i]) \in DOMAIN sel

IsAllPartsInCategorySelected(sel, prefix, category) ==
    LET perTOR == [i \in 1..Len(category.repairTypes) |->
                      IsAllPartsInTORSelected(sel, prefix, category.categoryId,
                                              category.repairTypes[i])]
    IN  \A i \in 1..Len(perTOR) : perTOR[i]

-----------------------------------------------------------------------------
(* updateSelectedParts, lines 165-181 *)

\* a variant that takes a previous quantity of 0 for no quantity
SelectPart_FalsyQuantity(sel, prefix, p, categoryId, torId, checked) ==
    LET uKey == GetUKey(prefix, categoryId, torId, p)
        qty == IF uKey \in DOMAIN sel /\ sel[uKey].qty # 0 THEN sel[uKey].qty ELSE 1
    IN  IF checked
        THEN MapSet(sel, uKey,
                    ([qty |-> qty] @@ p) @@ [categoryId |-> categoryId, torId |-> torId])
        ELSE MapDelete(sel, uKey)

\* a variant whose unchecked branch flips the entry instead of deleting it
SelectPart_Flip(sel, prefix, p, categoryId, torId, checked) ==
    LET uKey == GetUKey(prefix, categoryId, torId, p)
        qty == IF uKey \in DOMAIN sel THEN sel[uKey].qty ELSE 1
        entry == ([qty |-> qty] @@ p) @@ [categoryId |-> categoryId, torId |-> torId]
    IN  IF checked \/ uKey \notin DOMAIN sel
        THEN MapSet(sel, uKey, entry)
        ELSE MapDelete(sel, uKey)

\* one iteration of parts.forEach
SelectPart(sel, prefix, p, categoryId, torId, checked) ==
    LET uKey == GetUKey(prefix, categoryId, torId, p)
        selectedPreviouslyPart ==
            IF uKey \in DOMAIN sel THEN Some(sel[uKey]) ELSE undefined
        qty == IF Truthy(selectedPreviouslyPart)
               THEN ValueOf(selectedPreviouslyPart).qty ELSE 1
        withQty == [qty |-> qty] @@ p            \* p.qty = ...
    IN  IF checked
        THEN MapSet(sel, uKey, withQty @@ [categoryId |-> categoryId, torId |-> torId])
        ELSE MapDelete(sel, uKey)

\* a variant that ends by dropping the entries of the other repair-types
RECURSIVE UpdateSelectedParts_OneRepairType(_, _, _, _, _, _)
UpdateSelectedParts_OneRepairType(sel, prefix, parts, categoryId, torId, checked) ==
    IF parts = <<>>
    THEN [k \in {j \in DOMAIN sel : sel[j].torId = torId} |-> sel[k]]
    ELSE UpdateSelectedParts_OneRepairType(
             SelectPart(sel, prefix, Head(parts), categoryId, torId, checked),
             prefix, Tail(parts), categoryId, torId, checked)

RECURSIVE UpdateSelectedParts(_, _, _, _, _, _)
UpdateSelectedParts(sel, prefix, parts, categoryId, torId, checked) ==
    IF parts = <<>> THEN sel
    ELSE UpdateSelectedParts(
             SelectPart(sel, prefix, Head(parts), categoryId, torId, checked),
             prefix, Tail(parts), categoryId, torId, checked)

\* for each part of the list, the quantity the registry held under its key
\* when updateSelectedParts was entered, or undefined
PreviousQuantities(sel, prefix, parts, categoryId, torId) ==
    [i \in 1..Len(parts) |->
        LET uKey == GetUKey(prefix, categoryId, torId, parts[i])
        IN  IF uKey \in DOMAIN sel THEN Some(sel[uKey].qty) ELSE undefined]

\* the part object passed to the toggle, after updateSelectedParts wrote its qty
PartAfterUpdate(sel, prefix, p, categoryId, torId, checked) ==
    LET uKey == GetUKey(prefix, categoryId, torId, p)
    IN  IF checked
        THEN [qty |-> IF uKey \in DOMAIN sel THEN sel[uKey].qty ELSE 1] @@ p
        ELSE p

-----------------------------------------------------------------------------
(* clearChecked 142-144, clearSelections 183-186, qtyChanged 107-110,       *)
(* updatePricesInfo 234-239, changeSelectionOnPartsInCategory 153-163       *)

\* a variant that keeps the Map
ClearChecked_Keep(chk) == chk

ClearChecked(chk) == EmptyMap

ClearSelections(sel) == EmptyMap

\* a variant that writes the quantity to the entries of category C1 only
SetAllQuantities_OneCategory(sel, qty) ==
    [k \in DOMAIN sel |->
        IF sel[k].categoryId = "C1" THEN [qty |-> qty] @@ sel[k] ELSE sel[k]]

SetAllQuantities(sel, qty) == [k \in DOMAIN sel |-> [qty |-> qty] @@ sel[k]]

\* getUKey(p.categoryId, p.torId, p), line 237
PricedKey(prefix, p) ==
    GetUKey(prefix, TemplateField(p, "categoryId"), TemplateField(p, "torId"), p)

RECURSIVE IndexPrices(_, _, _)
IndexPrices(chk, prefix, prices) ==
    IF prices = <<>> THEN chk
    ELSE IndexPrices(MapSet(chk, PricedKey(prefix, Head(prices)), Head(prices)),
                     prefix, Tail(prices))

\* a variant that indexes into the Map it finds
UpdatePricesInfo_NoReset(chk, prefix, prices) == IndexPrices(chk, prefix, prices)

UpdatePricesInfo(chk, prefix, prices) == IndexPrices(EmptyMap, prefix, prices)

\* a variant that takes the overlay for a reset of both registries
SelectedAfterPrices_Reset(sel, prefix, prices) == EmptyMap

\* the selected registry after updatePricesInfo, which does not touch it
SelectedAfterPrices(sel, prefix, prices) == sel

RECURSIVE SelectRepairTypes(_, _, _, _, _)
SelectRepairTypes(sel, prefix, repairTypes, categoryId, checked) ==
    IF repairTypes = <<>> THEN sel
    ELSE LET tor == Head(repairTypes)
         IN  SelectRepairTypes(
                 UpdateSelectedParts(sel, prefix,
                     tor.partsIncluded \o tor.partsExcluded,
                     categoryId, tor.torId, checked),
                 prefix, Tail(repairTypes), categoryId, checked)

\* a variant that stops after the first repair-type of the category
ChangeSelectionOnPartsInCategory_FirstRepairType(sel, prefix, categorySelection) ==
    LET repairTypes == categorySelection.category.repairTypes
    IN  SelectRepairTypes(sel, prefix,
                          IF repairTypes = <<>> THEN <<>> ELSE <<Head(repairTypes)>>,
                          categorySelection.category.categoryId,
                          categorySelection.checked)

ChangeSelectionOnPartsInCategory(sel, prefix, categorySelection) ==
    SelectRepairTypes(sel, prefix, categorySelection.category.repairTypes,
                      categorySelection.category.categoryId,
                      categorySelection.checked)

-----------------------------------------------------------------------------
(* createPartsMatrix, lines 188-232 *)

\* Object.keys(o): the integer-like keys first, in ascending numeric order,
\* then the other string keys in insertion order (OrdinaryOwnPropertyKeys).
\* the canonical numeric strings "0", "1", ...
IndexText == [n \in 0..MaxArrayIndex |-> ToString(n)]
IsArrayIndex(k) == \E n \in 0..MaxArrayIndex : IndexText[n] = k
ArrayIndexOf(k) == CHOOSE n \in 0..MaxArrayIndex : IndexText[n] = k

RECURSIVE AscendingIndexKeys(_)
AscendingIndexKeys(ks) ==
    IF ks = {} THEN <<>>
    ELSE LET least == CHOOSE k \in ks :
                          \A other \in ks : ArrayIndexOf(k) <= ArrayIndexOf(other)
         IN  <<least>> \o AscendingIndexKeys(ks \ {least})

IsStringKey(k) == ~IsArrayIndex(k)

ObjectKeys(d) ==
    AscendingIndexKeys({k \in Range(d.keys) : IsArrayIndex(k)})
        \o SelectSeq(d.keys, IsStringKey)

\* Array.prototype.sort((a, b) => b.count - a.count): a stable sort
\* (ECMAScript 2019; before it V8 sorted arrays of up to 10 elements by
\* insertion, which is stable too).  Each item goes behind the items
\* already placed whose count is not smaller.
InsertByCountDesc(sorted, item) ==
    LET ahead == {i \in 1..Len(sorted) : sorted[i].count >= item.count}
        n == IF ahead = {} THEN 0 ELSE CHOOSE i \in ahead : \A j \in ahead : j <= i
    IN  SubSeq(sorted, 1, n) \o <<item>> \o SubSeq(sorted, n + 1, Len(sorted))

RECURSIVE SortByCountDesc(_, _)
SortByCountDesc(sorted, items) ==
    IF items = <<>> THEN sorted
    ELSE SortByCountDesc(InsertByCountDesc(sorted, Head(items)), Tail(items))

\* lines 226-231
TorColumnsOf(matrix) ==
    LET keys == ObjectKeys(matrix)
        counted == [i \in 1..Len(keys) |->
                       [key |-> keys[i], count |-> Len(ObjectKeys(matrix.at[keys[i]]))]]
        sorted == SortByCountDesc(<<>>, counted)
    IN  [i \in 1..Len(sorted) |-> sorted[i].key]

\* a variant that returns the parts as they are
MarkExcluded_Forgotten(parts) == parts

\* partsExcluded.map(p => { p.isExcluded = true; return p; })
MarkExcluded(parts) == [i \in 1..Len(parts) |-> [isExcluded |-> TRUE] @@ parts[i]]

\* The body of repairTypes.forEach, lines 205-221.  b is the build so far:
\* the local partsMatrix and the two id lookups.
AddRepairType(b, categoryId, repairType) ==
    LET torId == repairType.torId
        row0 == IF DictHas(b.matrix, torId)
                THEN b.matrix.at[torId]
                ELSE DictSet(EmptyDict, categoryId, EmptyMap)
        cell == [included |-> repairType.partsIncluded,
                 excluded |-> MarkExcluded(repairType.partsExcluded)]
    IN  [matrix |-> DictSet(b.matrix, torId, DictSet(row0, categoryId, cell)),
         categoriesById |-> b.categoriesById,
         torsById |-> MapSet(b.torsById, torId,
                             [torId |-> torId, title |-> repairType.title])]

RECURSIVE AddRepairTypes(_, _, _)
AddRepairTypes(b, categoryId, repairTypes) ==
    IF repairTypes = <<>> THEN b
    ELSE AddRepairTypes(AddRepairType(b, categoryId, Head(repairTypes)),
                        categoryId, Tail(repairTypes))

\* The body of categories.forEach, lines 196-222
AddCategory(b, category) ==
    IF ~HasRepairTypes(category) THEN b
    ELSE AddRepairTypes(
             [b EXCEPT !.categoriesById =
                 MapSet(@, category.categoryId,
                        [categoryId |-> category.categoryId, title |-> category.title])],
             category.categoryId, category.repairTypes)

RECURSIVE AddCategories(_, _)
AddCategories(b, cats) ==
    IF cats = <<>> THEN b
    ELSE AddCategories(AddCategory(b, Head(cats)), Tail(cats))

\* The input objects after the build: the parts of every excluded list that
\* was visited carry isExcluded = true (they are the objects of the cells).
CategoryAfterBuild(category) ==
    IF ~HasRepairTypes(category) THEN category
    ELSE [category EXCEPT !.repairTypes =
             [i \in 1..Len(@) |->
                 [@[i] EXCEPT !.partsExcluded = MarkExcluded(@)]]]

CategoriesAfterBuild(cats) == [i \in 1..Len(cats) |-> CategoryAfterBuild(cats[i])]

\* lines 225-231, and the lookups the loop filled
BuildResult(cats, b) ==
    [categories |-> Some(CategoriesAfterBuild(ValueOf(cats))),
     partsMatrix |-> Some(b.matrix),
     torColumns |-> Some(TorColumnsOf(b.matrix)),
     categoriesById |-> b.categoriesById,
     torsById |-> b.torsById]

\* createPartsMatrix as a function of the fields it reads; the result holds
\* the fields it writes.  Without categories only torColumns is assigned.
CreatePartsMatrix(cats, matrix, columns, cById, tById) ==
    IF ~Truthy(cats)
    THEN [categories |-> cats, partsMatrix |-> matrix, torColumns |-> Some(<<>>),
          categoriesById |-> cById, torsById |-> tById]
    ELSE BuildResult(cats,
             AddCategories([matrix |-> EmptyDict, categoriesById |-> cById,
                            torsById |-> tById], ValueOf(cats)))

-----------------------------------------------------------------------------
(* The component after construction, lines 28-49: categories = [], the two  *)
(* Maps and the two lookups empty, every other field undefined.             *)

Init ==
    /\ categories = Some(<<>>)
    /\ uKeyPrefix = undefined
    /\ torColumns = undefined
    /\ partsMatrix = undefined
    /\ selectedParts = EmptyMap
    /\ checkedParts = EmptyMap
    /\ categoriesById = EmptyMap
    /\ torsById = EmptyMap
    /\ emitted = <<>>
    /\ last = [op |-> "constructor", raised |-> FALSE]

\* `${this.uKeyPrefix}`
PrefixText(prefix) == IF Truthy(prefix) THEN ValueOf(prefix) ELSE "undefined"

-----------------------------------------------------------------------------
(* qtyChanged, lines 107-110 *)

QtyChanged(qty) ==
    /\ checkedParts' = ClearChecked(checkedParts)
    /\ selectedParts' = SetAllQuantities(selectedParts, qty)
    /\ emitted' = <<>>
    /\ last' = [op |-> "qtyChanged", qty |-> qty,
                cleared |-> Cardinality(DOMAIN checkedParts), raised |-> FALSE]
    /\ UNCHANGED <<categories, uKeyPrefix, torColumns, partsMatrix,
                   categoriesById, torsById>>

-----------------------------------------------------------------------------
(* onPartSelectionChanged, lines 84-101 *)

DefaultParts == [included |-> <<>>, excluded |-> <<>>]

\* [part, ...allPartsForSelectedTOR.included, ...allPartsForSelectedTOR.excluded]
ToggledParts(part, allPartsForSelectedTOR) ==
    <<part>> \o allPartsForSelectedTOR.included \o allPartsForSelectedTOR.excluded

\* the registry after line 93
SelectedAfterToggle(sel, prefix, checked, category, torId, part, all) ==
    UpdateSelectedParts(sel, prefix, ToggledParts(part, all),
                        category.categoryId, torId, checked)

\* a variant that evaluates categoryChecked before line 93
ToggleEvent_BeforeUpdate(sel, prefix, checked, category, torId, part, all) ==
    [part |-> PartAfterUpdate(sel, prefix, part, category.categoryId, torId, checked),
     checked |-> checked,
     category |-> category,
     categoryChecked |-> IsAllPartsInCategorySelected(sel, prefix, category)]

\* the event of lines 95-100; categoryChecked is evaluated after line 93
ToggleEvent(sel, prefix, checked, category, torId, part, all) ==
    [part |-> PartAfterUpdate(sel, prefix, part, category.categoryId, torId, checked),
     checked |-> checked,
     category |-> category,
     categoryChecked |->
        IsAllPartsInCategorySelected(
            SelectedAfterToggle(sel, prefix, checked, category, torId, part, all),
            prefix, category)]

OnPartSelectionChanged(checked, category, torId, part, all) ==
    LET prefix == PrefixText(uKeyPrefix)
    IN  /\ selectedParts' =
               SelectedAfterToggle(selectedParts, prefix, checked, category, torId, part, all)
        /\ emitted' =
               IF HasRepairTypes(category)
               THEN << ToggleEvent(selectedParts, prefix, checked, category, torId, part, all) >>
               ELSE <<>>    \* category.repairTypes.map raises before emit
        /\ last' = [op |-> "onPartSelectionChanged", checked |-> checked,
                    category |-> category, torId |-> torId, part |-> part,
                    allPartsForSelectedTOR |-> all,
                    previous |-> PreviousQuantities(selectedParts, prefix,
                                     ToggledParts(part, all), category.categoryId,
                                     torId),
                    raised |-> ~HasRepairTypes(category)]
        /\ UNCHANGED <<categories, uKeyPrefix, torColumns, partsMatrix, checkedParts,
                       categoriesById, torsById>>

\* The checkboxes the table can offer: a category of the categories input, a
\* column, and a part of the cell of that column and category id.
HasCell(torId, categoryId) ==
    /\ Truthy(partsMatrix)
    /\ DictHas(ValueOf(partsMatrix), torId)
    /\ DictHas(ValueOf(partsMatrix).at[torId], categoryId)

CellAt(torId, categoryId) == ValueOf(partsMatrix).at[torId].at[categoryId]

Toggle ==
    /\ Truthy(categories)
    /\ Truthy(torColumns)
    /\ \E category \in Range(ValueOf(categories)),
          torId \in Range(ValueOf(torColumns)) :
          /\ HasCell(torId, category.categoryId)
          /\ LET cell == CellAt(torId, category.categoryId)
             IN  \E part \in Range(cell.included) \cup Range(cell.excluded),
                    all \in {DefaultParts, cell},
                    checked \in BOOLEAN :
                    OnPartSelectionChanged(checked, category, torId, part, all)

-----------------------------------------------------------------------------
(* getCheckedPart, lines 103-105, and showDetails, lines 116-140.  The      *)
(* customer and warehouse inputs are taken as bound; the payload handed to  *)
(* the dialog is recorded in last.                                          *)

GetCheckedPart(chk, prefix, category, torId, part) ==
    LET uKey == GetUKey(prefix, category.categoryId, torId, part)
    IN  IF uKey \in DOMAIN chk THEN Some(chk[uKey]) ELSE undefined

\* ({...p, qty: 1}): the spread of undefined adds no property
WithQtyOne(p) == IF Truthy(p) THEN [qty |-> 1] @@ ValueOf(p) ELSE [qty |-> 1]

\* lines 120-125; an element of included is the entry or undefined, an
\* element of excluded is always an object
PartsWithInfo(chk, prefix, category, torId, parts) ==
    [included |-> [i \in 1..Len(parts.included) |->
                      GetCheckedPart(chk, prefix, category, torId, parts.included[i])],
     excluded |-> [i \in 1..Len(parts.excluded) |->
                      Some(WithQtyOne(GetCheckedPart(chk, prefix, category, torId,
                                                     parts.excluded[i])))]]

ShowDetails(category, torId, parts) ==
    /\ last' = [op |-> "showDetails", category |-> category, torId |-> torId,
                parts |-> parts,
                partsWithInfo |-> PartsWithInfo(checkedParts, PrefixText(uKeyPrefix),
                                                category, torId, parts),
                raised |-> FALSE]
    /\ emitted' = <<>>
    /\ UNCHANGED <<categories, uKeyPrefix, torColumns, partsMatrix, selectedParts,
                   checkedParts, categoriesById, torsById>>

\* The details the table can offer: those of a cell of the matrix.
Details ==
    /\ Truthy(categories)
    /\ Truthy(torColumns)
    /\ \E category \in Range(ValueOf(categories)),
          torId \in Range(ValueOf(torColumns)) :
          /\ HasCell(torId, category.categoryId)
          /\ ShowDetails(category, torId, CellAt(torId, category.categoryId))

-----------------------------------------------------------------------------
(* ngOnChanges, lines 57-70.  Angular assigns the changed inputs to the     *)
(* fields before it calls ngOnChanges with the SimpleChanges.               *)

NoChange == [changed |-> FALSE, currentValue |-> undefined]
ChangeTo(v) == [changed |-> TRUE, currentValue |-> v]

\* changes.x && changes.x.currentValue
ChangedToTruthy(change) == change.changed /\ Truthy(change.currentValue)

InputAfter(change, field) == IF change.changed THEN change.currentValue ELSE field

Changes(c, p, u, s) ==
    [categories |-> c, partsPrices |-> p, uKeyPrefix |-> u, categorySelection |-> s]

\* category.repairTypes.forEach (156) raises without repairTypes
BulkRaises(categorySelectionChange) ==
    /\ ChangedToTruthy(categorySelectionChange)
    /\ ~HasRepairTypes(ValueOf(categorySelectionChange.currentValue).category)

\* a variant that applies the bulk selection before the reset
SelectedAfterChanges_BulkFirst(sel, prefix, categoriesChange, partsPricesChange, categorySelectionChange) ==
    LET bulk == ChangedToTruthy(categorySelectionChange)
                    /\ ~BulkRaises(categorySelectionChange)
        selAfterBulk ==
                IF bulk
                THEN ChangeSelectionOnPartsInCategory(
                         sel, prefix, ValueOf(categorySelectionChange.currentValue))
                ELSE sel
    IN  IF ChangedToTruthy(categoriesChange)
        THEN ClearSelections(selAfterBulk) ELSE selAfterBulk

\* the selected registry through the three branches of ngOnChanges, in order
SelectedAfterChanges(sel, prefix, categoriesChange, partsPricesChange, categorySelectionChange) ==
    LET \* lines 58-61
        sel1 == IF ChangedToTruthy(categoriesChange) THEN ClearSelections(sel) ELSE sel
        \* lines 63-65
        selAfterPrices ==
                IF ChangedToTruthy(partsPricesChange)
                THEN SelectedAfterPrices(sel1, prefix, ValueOf(partsPricesChange.currentValue))
                ELSE sel1
        \* lines 67-69
        bulk == ChangedToTruthy(categorySelectionChange)
                    /\ ~BulkRaises(categorySelectionChange)
    IN  IF bulk
        THEN ChangeSelectionOnPartsInCategory(
                 selAfterPrices, prefix, ValueOf(categorySelectionChange.currentValue))
        ELSE selAfterPrices

\* The four arguments are the entries of the SimpleChanges.
NgOnChanges(categoriesChange, partsPricesChange, uKeyPrefixChange, categorySelectionChange) ==
    LET cats == InputAfter(categoriesChange, categories)
        prefix == PrefixText(InputAfter(uKeyPrefixChange, uKeyPrefix))
        \* lines 58-61
        rebuild == ChangedToTruthy(categoriesChange)
        chk1 == IF rebuild THEN ClearChecked(checkedParts) ELSE checkedParts
        fields == IF rebuild
                  THEN CreatePartsMatrix(cats, partsMatrix, torColumns,
                                         categoriesById, torsById)
                  ELSE [categories |-> cats, partsMatrix |-> partsMatrix,
                        torColumns |-> torColumns, categoriesById |-> categoriesById,
                        torsById |-> torsById]
        \* lines 63-65
        chk2 == IF ChangedToTruthy(partsPricesChange)
                THEN UpdatePricesInfo(chk1, prefix, ValueOf(partsPricesChange.currentValue))
                ELSE chk1
        sel2 == SelectedAfterChanges(selectedParts, prefix, categoriesChange,
                                     partsPricesChange, categorySelectionChange)
        raises == BulkRaises(categorySelectionChange)
    IN  \E built \in {fields} :
        /\ categories' = built.categories
        /\ uKeyPrefix' = InputAfter(uKeyPrefixChange, uKeyPrefix)
        /\ partsMatrix' = built.partsMatrix
        /\ torColumns' = built.torColumns
        /\ categoriesById' = built.categoriesById
        /\ torsById' = built.torsById
        /\ selectedParts' = sel2
        /\ checkedParts' = chk2
        /\ emitted' = <<>>
        /\ last' = [op |-> "ngOnChanges",
                    changes |-> Changes(categoriesChange, partsPricesChange,
                                        uKeyPrefixChange, categorySelectionChange),
                    raised |-> raises]

\* The values the parent can bind.  A bulk selection names a category of the
\* categories input as it stands when the notification arrives.
CategoriesValues == {undefined} \cup {Some(c) : c \in Catalogs}
PartsPricesValues == {undefined} \cup {Some(l) : l \in PriceLists}
SelectableCategories(categoriesChange) ==
    LET cats == InputAfter(categoriesChange, categories)
    IN  IF ~Truthy(cats) THEN {}
        ELSE Range(IF ChangedToTruthy(categoriesChange)
                   THEN CategoriesAfterBuild(ValueOf(cats)) ELSE ValueOf(cats))
CategorySelectionValues(categoriesChange) ==
    {undefined} \cup
    {Some([checked |-> checked, category |-> category]) :
        checked \in BOOLEAN, category \in SelectableCategories(categoriesChange)}

\* One notification carries one changed input or two; the key prefix is
\* rebound, if at all, together with the categories.
CategoriesChange ==
    \E c \in CategoriesValues :
        NgOnChanges(ChangeTo(c), NoChange, NoChange, NoChange)

PartsPricesChange ==
    \E p \in PartsPricesValues :
        NgOnChanges(NoChange, ChangeTo(p), NoChange, NoChange)

CategorySelectionChange ==
    \E s \in CategorySelectionValues(NoChange) :
        NgOnChanges(NoChange, NoChange, NoChange, ChangeTo(s))

CategoriesAndPrefixChange ==
    \E c \in CategoriesValues, u \in Prefixes :
        NgOnChanges(ChangeTo(c), NoChange, ChangeTo(Some(u)), NoChange)

CategoriesAndPricesChange ==
    \E c \in CategoriesValues, p \in PartsPricesValues :
        NgOnChanges(ChangeTo(c), ChangeTo(p), NoChange, NoChange)

CategoriesAndSelectionChange ==
    \E c \in CategoriesValues :
        \E s \in CategorySelectionValues(ChangeTo(c)) :
            NgOnChanges(ChangeTo(c), NoChange, NoChange, ChangeTo(s))

PricesAndSelectionChange ==
    \E p \in PartsPricesValues, s \in CategorySelectionValues(NoChange) :
        NgOnChanges(NoChange, ChangeTo(p), NoChange, ChangeTo(s))

Notify ==
    \/ CategoriesChange
    \/ PartsPricesChange
    \/ CategorySelectionChange
    \/ CategoriesAndPrefixChange
    \/ CategoriesAndPricesChange
    \/ CategoriesAndSelectionChange
    \/ PricesAndSelectionChange

ChangeQuantity == \E qty \in Quantities : QtyChanged(qty)

Next == Notify \/ Toggle \/ ChangeQuantity \/ Details

Spec == Init /\ [][Next]_vars

-----------------------------------------------------------------------------
(* Vocabulary of the properties *)

Prefix == PrefixText(uKeyPrefix)

\* every category of every catalog, as bound and as the build leaves it
KnownCategories ==
    UNION {Range(c) \cup Range(CategoriesAfterBuild(c)) : c \in Catalogs}

PartsOfTOR(tor) == Range(tor.partsIncluded) \cup Range(tor.partsExcluded)

\* the composite keys of every part of every repair-type of a category
CategoryKeys(prefix, category) ==
    UNION {{GetUKey(prefix, category.categoryId, tor.torId, part) : part \in PartsOfTOR(tor)}
           : tor \in Range(category.repairTypes)}

IsToggle == last.op = "onPartSelectionChanged"
IsQtyChanged == last.op = "qtyChanged"
IsNotification == last.op = "ngOnChanges"

\* the key of the i-th part the last toggle handed to updateSelectedParts
ToggledKey(i) ==
    GetUKey(Prefix, last.category.categoryId, last.torId,
            ToggledParts(last.part, last.allPartsForSelectedTOR)[i])

-----------------------------------------------------------------------------
(* C1: in every reachable state, for every category that has a repair-type  *)
(* list, isAllPartsInCategorySelected is true exactly when the composite    *)
(* key of every part of every repair-type of the category is in the         *)
(* selected registry; with no repair-types it is true.  (A category without *)
(* a repair-type list makes the method raise: that case is C12's.)          *)
C1_CategoryAggregate ==
    \A category \in KnownCategories :
        HasRepairTypes(category) =>
            /\ IsAllPartsInCategorySelected(selectedParts, Prefix, category)
                   <=> CategoryKeys(Prefix, category) \subseteq DOMAIN selectedParts
            /\ category.repairTypes = <<>>
                   => IsAllPartsInCategorySelected(selectedParts, Prefix, category)

\* the catalog with three categories: C1 misses only its excluded part, C2 is
\* fully selected, C3 has no repair-types
C1_Witness ==
    /\ Truthy(categories)
    /\ Len(ValueOf(categories)) = 3
    /\ LET cats == ValueOf(categories)
       IN  /\ \A i \in 1..3 : HasRepairTypes(cats[i])
           /\ ~IsAllPartsInCategorySelected(selectedParts, Prefix, cats[1])
           /\ GetUKey(Prefix, "C1", "T1", P1A) \in DOMAIN selectedParts
           /\ IsAllPartsInCategorySelected(selectedParts, Prefix, cats[2])
           /\ CategoryKeys(Prefix, cats[2]) # {}
           /\ IsAllPartsInCategorySelected(selectedParts, Prefix, cats[3])

-----------------------------------------------------------------------------
(* C2: after a toggle with checked = true, every toggled part has an entry  *)
(* whose quantity is the quantity the registry held under its key when the  *)
(* call began (also one written by qtyChanged), and 1 when the key was not  *)
(* in the registry.                                                         *)
C2_QuantityKeptOrOne ==
    (IsToggle /\ last.checked) =>
        \A i \in 1..Len(last.previous) :
            /\ ToggledKey(i) \in DOMAIN selectedParts
            /\ selectedParts[ToggledKey(i)].qty =
                   IF Truthy(last.previous[i]) THEN ValueOf(last.previous[i]) ELSE 1

\* a re-selection that kept a quantity of 0 written by qtyChanged
C2_Witness ==
    /\ IsToggle /\ last.checked
    /\ last.previous[1] = Some(0)
    /\ selectedParts[ToggledKey(1)].qty = 0

-----------------------------------------------------------------------------
(* C3: right after qtyChanged(q) the checked registry is empty.             *)
C3_CheckedEmptyAfterQtyChanged ==
    IsQtyChanged => checkedParts = EmptyMap

\* qtyChanged found priced parts and dropped them
C3_Witness ==
    IsQtyChanged /\ last.cleared > 0 /\ checkedParts = EmptyMap

-----------------------------------------------------------------------------
(* C4: right after a price overlay with list P the keys of the checked      *)
(* registry are exactly the composite keys of the elements of P, and each   *)
(* key holds the last element of P that has it.                             *)
OverlaidPrices == ValueOf(last.changes.partsPrices.currentValue)

C4_OverlayReplaces ==
    (IsNotification /\ ChangedToTruthy(last.changes.partsPrices)) =>
        /\ DOMAIN checkedParts =
               {PricedKey(Prefix, OverlaidPrices[i]) : i \in 1..Len(OverlaidPrices)}
        /\ \A i \in 1..Len(OverlaidPrices) :
               (\A j \in (i + 1)..Len(OverlaidPrices) :
                    PricedKey(Prefix, OverlaidPrices[j]) # PricedKey(Prefix, OverlaidPrices[i]))
               => checkedParts[PricedKey(Prefix, OverlaidPrices[i])] = OverlaidPrices[i]

\* three priced parts under two keys: the later price of the repeated key stays
C4_Witness ==
    /\ IsNotification /\ ChangedToTruthy(last.changes.partsPrices)
    /\ Len(OverlaidPrices) = 3
    /\ Cardinality(DOMAIN checkedParts) = 2
    /\ checkedParts[PricedKey(Prefix, OverlaidPrices[1])].price = 30

-----------------------------------------------------------------------------
(* C5: a toggle with checked = false leaves the checked registry alone,     *)
(* leaves the selected registry in a state that the same toggle does not    *)
(* change again, changes nothing when none of the toggled keys was in the   *)
(* selected registry, and does not raise for a category with a repair-type  *)
(* list.                                                                    *)
C5_DeselectIdempotent ==
    [][ (last'.op = "onPartSelectionChanged" /\ ~last'.checked) =>
            LET parts == ToggledParts(last'.part, last'.allPartsForSelectedTOR)
                keys == {GetUKey(Prefix, last'.category.categoryId, last'.torId, parts[i])
                         : i \in 1..Len(parts)}
            IN  /\ UpdateSelectedParts(selectedParts', Prefix, parts,
                                       last'.category.categoryId, last'.torId, FALSE)
                       = selectedParts'
                /\ checkedParts' = checkedParts
                /\ keys \cap DOMAIN selectedParts = {} => selectedParts' = selectedParts
                /\ HasRepairTypes(last'.category) => ~last'.raised
      ]_vars

\* a part toggled off while its key was not selected, with other parts selected
C5_Witness ==
    /\ IsToggle /\ ~last.checked
    /\ \A i \in 1..Len(last.previous) : last.previous[i] = undefined
    /\ selectedParts # EmptyMap

-----------------------------------------------------------------------------
(* C6: after a notification that changes the categories and neither the     *)
(* prices nor the bulk selection, whatever the new value of the categories, *)
(* both registries are empty.                                               *)
C6_ResetOnEveryCatalogChange ==
    (/\ IsNotification
     /\ last.changes.categories.changed
     /\ ~last.changes.partsPrices.changed
     /\ ~last.changes.categorySelection.changed)
        => selectedParts = EmptyMap /\ checkedParts = EmptyMap

-----------------------------------------------------------------------------
(* C7: after a build, torColumns lists every repair-type id once, a         *)
(* repair-type in more categories before one in fewer, and of two in        *)
(* equally many categories the one met first before the other.              *)
IsBuild == IsNotification /\ ChangedToTruthy(last.changes.categories)

\* the list the last build was given, as it was bound
BuiltFrom == ValueOf(last.changes.categories.currentValue)

RECURSIVE TorIdsInOrder(_)
TorIdsInOrder(cats) ==
    IF cats = <<>> THEN <<>>
    ELSE (IF HasRepairTypes(Head(cats))
          THEN [i \in 1..Len(Head(cats).repairTypes) |-> Head(cats).repairTypes[i].torId]
          ELSE <<>>) \o TorIdsInOrder(Tail(cats))

FirstMet(cats, torId) ==
    LET ids == TorIdsInOrder(cats)
    IN  CHOOSE i \in 1..Len(ids) : ids[i] = torId /\ \A j \in 1..(i - 1) : ids[j] # torId

CategoriesHolding(cats, torId) ==
    {category.categoryId : category \in
        {c \in Range(cats) : HasRepairTypes(c)
                             /\ \E tor \in Range(c.repairTypes) : tor.torId = torId}}

C7_ColumnsByCountThenEncounter ==
    IsBuild =>
        LET columns == ValueOf(torColumns)
            count(t) == Cardinality(CategoriesHolding(BuiltFrom, t))
        IN  /\ Range(columns) = Range(TorIdsInOrder(BuiltFrom))
            /\ Len(columns) = Cardinality(Range(columns))
            /\ \A i, j \in 1..Len(columns) :
                   i < j =>
                       \/ count(columns[i]) > count(columns[j])
                       \/ /\ count(columns[i]) = count(columns[j])
                          /\ FirstMet(BuiltFrom, columns[i]) < FirstMet(BuiltFrom, columns[j])

-----------------------------------------------------------------------------
(* C8: after a build from a list, the matrix has a cell (torId, categoryId) *)
(* exactly when a category of the list with that id and a repair-type list  *)
(* owns a repair-type with that torId; the cell's included list is that     *)
(* repair-type's, its excluded list holds the same parts, each with         *)
(* isExcluded = true; a category without a repair-type list adds no cell.   *)
KnownCategoryIds == {category.categoryId : category \in KnownCategories}
KnownTorIds == UNION {Range(TorIdsInOrder(c)) : c \in Catalogs}

Owners(cats, torId, categoryId) ==
    {tor \in UNION {Range(c.repairTypes) :
                        c \in {x \in Range(cats) : HasRepairTypes(x)
                                                    /\ x.categoryId = categoryId}} :
        tor.torId = torId}

WithoutField(o, f) == [x \in DOMAIN o \ {f} |-> o[x]]

C8_MatrixCells ==
    IsBuild =>
        /\ DOMAIN ValueOf(partsMatrix).at \subseteq KnownTorIds
        /\ \A torId \in KnownTorIds :
               DictHas(ValueOf(partsMatrix), torId) =>
                   DOMAIN ValueOf(partsMatrix).at[torId].at \subseteq KnownCategoryIds
        /\ \A torId \in KnownTorIds, categoryId \in KnownCategoryIds :
               /\ HasCell(torId, categoryId) <=> Owners(BuiltFrom, torId, categoryId) # {}
               /\ HasCell(torId, categoryId) =>
                      \E tor \in Owners(BuiltFrom, torId, categoryId) :
                          LET cell == CellAt(torId, categoryId)
                          IN  /\ cell.included = tor.partsIncluded
                              /\ Len(cell.excluded) = Len(tor.partsExcluded)
                              /\ \A k \in 1..Len(cell.excluded) :
                                     /\ "isExcluded" \in DOMAIN cell.excluded[k]
                                     /\ cell.excluded[k].isExcluded
                                     /\ WithoutField(cell.excluded[k], "isExcluded")
                                            = WithoutField(tor.partsExcluded[k], "isExcluded")

\* the scenario's cell, and the catalog with categories that have no list
C8_Witness ==
    /\ IsBuild
    /\ \/ /\ BuiltFrom = CatalogScenario
          /\ CellAt("T1", "C1").included = <<P1A>>
          /\ CellAt("T1", "C1").excluded = << [isExcluded |-> TRUE] @@ P2B >>
       \/ /\ BuiltFrom = CatalogMalformed
          /\ HasCell("T1", "C1")
          /\ ~HasCell("T1", "C0")

-----------------------------------------------------------------------------
(* C9: two different selectable units of the bound catalog, that is two     *)
(* different tuples (categoryId, torId, partNumber, sOS) under the bound    *)
(* prefix, never have the same key.                                         *)
Units ==
    IF ~Truthy(categories) THEN {}
    ELSE UNION {UNION {{[categoryId |-> category.categoryId, torId |-> tor.torId,
                         partNumber |-> part.partNumber, sOS |-> part.sOS]
                        : part \in Range(tor.partsIncluded) \cup Range(tor.partsExcluded)}
                       : tor \in Range(category.repairTypes)}
                : category \in {c \in Range(ValueOf(categories)) : HasRepairTypes(c)}}

UnitKey(unit) ==
    GetUKey(Prefix, unit.categoryId, unit.torId,
            [partNumber |-> unit.partNumber, sOS |-> unit.sOS])

C9_KeysDistinct ==
    \A u, v \in Units : u # v => UnitKey(u) # UnitKey(v)

-----------------------------------------------------------------------------
(* C10: every toggle of a category with a repair-type list emits exactly    *)
(* one event, carrying the toggled part, the checked flag, the category,    *)
(* and the category's aggregate computed on the selected registry as the    *)
(* toggle left it; no other operation emits an event.                       *)
C10_OneEventAfterUpdate ==
    /\ (IsToggle /\ HasRepairTypes(last.category)) =>
           /\ Len(emitted) = 1
           /\ WithoutField(emitted[1].part, "qty") = WithoutField(last.part, "qty")
           /\ emitted[1].checked = last.checked
           /\ emitted[1].category = last.category
           /\ emitted[1].categoryChecked
                  = IsAllPartsInCategorySelected(selectedParts, Prefix, last.category)
    /\ ~IsToggle => emitted = <<>>

\* the toggle that selects the last unselected part of a category: the event
\* reports the category complete, which it was not before the toggle
C10_Witness ==
    /\ IsToggle /\ last.checked /\ HasRepairTypes(last.category)
    /\ last.previous[1] = undefined
    /\ ToggledKey(1) \in CategoryKeys(Prefix, last.category)
    /\ Len(emitted) = 1
    /\ emitted[1].categoryChecked

-----------------------------------------------------------------------------
(* C11: with the catalog of C1 owning T1 with included [P1 (sOS A)] and     *)
(* excluded [P2 (sOS B)]: the toggle of P1 alone under (C1, T1), checked,   *)
(* from an empty selected registry leaves exactly the key                   *)
(* <prefix>_C1_T1_P1_A there, with quantity 1, and emits categoryChecked    *)
(* false; and as long as the key of P2 is not in the registry, the          *)
(* aggregate of C1 and the categoryChecked of any event of C1 are false.    *)
ScenarioBound ==
    /\ Truthy(categories)
    /\ ValueOf(categories) = CategoriesAfterBuild(CatalogScenario)

ScenarioCategory == ValueOf(categories)[1]

C11_ScenarioToggle ==
    [][ ScenarioBound' =>
          /\ (/\ selectedParts = EmptyMap
              /\ last'.op = "onPartSelectionChanged"
              /\ last'.checked
              /\ last'.part = P1A
              /\ last'.torId = "T1"
              /\ last'.allPartsForSelectedTOR = DefaultParts)
                 => /\ DOMAIN selectedParts' = {PrefixText(uKeyPrefix') \o "_C1_T1_P1_A"}
                    /\ selectedParts'[PrefixText(uKeyPrefix') \o "_C1_T1_P1_A"].qty = 1
                    /\ selectedParts'[PrefixText(uKeyPrefix') \o "_C1_T1_P1_A"].partNumber = "P1"
                    /\ emitted'[1].categoryChecked = FALSE
          /\ (PrefixText(uKeyPrefix') \o "_C1_T1_P2_B") \notin DOMAIN selectedParts' =>
                 /\ ~IsAllPartsInCategorySelected(selectedParts', PrefixText(uKeyPrefix'), ScenarioCategory')
                 /\ \A i \in 1..Len(emitted') : ~emitted'[i].categoryChecked
      ]_vars

\* P1 toggled on alone from an empty registry, under the bound prefix
C11_Witness ==
    /\ ScenarioBound
    /\ IsToggle /\ last.checked /\ last.part = P1A
    /\ last.allPartsForSelectedTOR = DefaultParts
    /\ Prefix = "snr"
    /\ DOMAIN selectedParts = {"snr_C1_T1_P1_A"}
    /\ emitted[1].categoryChecked = FALSE

-----------------------------------------------------------------------------
(* C12: no operation raises on a category without a repair-type list: a     *)
(* toggle of a part of such a category and a bulk selection of such a       *)
(* category complete without raising.                                       *)
OnCategoryWithoutRepairTypes ==
    \/ IsToggle /\ ~HasRepairTypes(last.category)
    \/ /\ IsNotification
       /\ ChangedToTruthy(last.changes.categorySelection)
       /\ ~HasRepairTypes(ValueOf(last.changes.categorySelection.currentValue).category)

C12_NoRaiseWithoutRepairTypes ==
    OnCategoryWithoutRepairTypes => ~last.raised

-----------------------------------------------------------------------------
(* C13: qtyChanged(q) keeps the key set of the selected registry, leaves    *)
(* every entry with quantity q, and changes no other field of any entry.    *)
C13_QuantityWrittenToAll ==
    [][ last'.op = "qtyChanged" =>
          /\ DOMAIN selectedParts' = DOMAIN selectedParts
          /\ \A k \in DOMAIN selectedParts :
                 /\ selectedParts'[k].qty = last'.qty
                 /\ WithoutField(selectedParts'[k], "qty")
                        = WithoutField(selectedParts[k], "qty")
      ]_vars

\* a quantity other than the default written to entries of two categories
C13_Witness ==
    /\ IsQtyChanged
    /\ last.qty = 0
    /\ \E j, k \in DOMAIN selectedParts :
           /\ selectedParts[j].categoryId # selectedParts[k].categoryId
           /\ selectedParts[j].torId # selectedParts[k].torId
           /\ selectedParts[j].qty = 0 /\ selectedParts[k].qty = 0

-----------------------------------------------------------------------------
(* C14: a notification that changes the prices only, that is a price        *)
(* overlay and nothing else, leaves the selected registry as it was: the    *)
(* same keys and the same entries, quantities included.                     *)
C14_OverlayKeepsSelected ==
    [][ (/\ last'.op = "ngOnChanges"
         /\ last'.changes.partsPrices.changed
         /\ ~last'.changes.categories.changed
         /\ ~last'.changes.categorySelection.changed)
            => selectedParts' = selectedParts
      ]_vars

\* prices overlaid on a part that is selected with a quantity that was set
C14_Witness ==
    /\ IsNotification
    /\ ChangedToTruthy(last.changes.partsPrices)
    /\ ~last.changes.categories.changed
    /\ ~last.changes.categorySelection.changed
    /\ \E k \in DOMAIN selectedParts \cap DOMAIN checkedParts : selectedParts[k].qty = 0

-----------------------------------------------------------------------------
(* C15: the branches of one notification run in the order reset and         *)
(* rebuild, price overlay, bulk selection: after a notification with a new  *)
(* catalog and a bulk selection with checked = true the keys of the         *)
(* selected registry are exactly the keys of the parts of the bulk-selected *)
(* category, and after one with a changed catalog and new prices the keys   *)
(* of the checked registry are exactly the keys of the new prices.          *)
BulkSelection == ValueOf(last.changes.categorySelection.currentValue)

KeysOfCategory(prefix, category) ==
    IF HasRepairTypes(category) THEN CategoryKeys(prefix, category) ELSE {}

C15_BranchesInOrder ==
    IsNotification =>
        /\ (/\ ChangedToTruthy(last.changes.categories)
            /\ ChangedToTruthy(last.changes.categorySelection)
            /\ BulkSelection.checked)
               => /\ DOMAIN selectedParts = KeysOfCategory(Prefix, BulkSelection.category)
                  /\ \A k \in DOMAIN selectedParts : selectedParts[k].qty = 1
        /\ (/\ last.changes.categories.changed
            /\ ChangedToTruthy(last.changes.partsPrices))
               => DOMAIN checkedParts =
                      {PricedKey(Prefix, p) : p \in Range(OverlaidPrices)}

\* a new catalog together with a bulk selection that selected parts
C15_Witness ==
    /\ IsNotification
    /\ ChangedToTruthy(last.changes.categories)
    /\ ChangedToTruthy(last.changes.categorySelection)
    /\ BulkSelection.checked
    /\ selectedParts # EmptyMap

-----------------------------------------------------------------------------
(* C16: a bulk selection of a category C (with a repair-type list), in a    *)
(* notification that does not reset: with checked = true the aggregate of   *)
(* C is true afterwards and the entries of C that were selected keep their  *)
(* quantity; with checked = false no key of a part of C is selected         *)
(* afterwards; in both cases the entries under the other keys are the same  *)
(* before and after, and no other key appears.                              *)
C16_BulkToggle ==
    [][ (/\ last'.op = "ngOnChanges"
         /\ ChangedToTruthy(last'.changes.categorySelection)
         /\ ~ChangedToTruthy(last'.changes.categories)
         /\ HasRepairTypes(ValueOf(last'.changes.categorySelection.currentValue).category))
            => LET selection == ValueOf(last'.changes.categorySelection.currentValue)
                   prefix == PrefixText(uKeyPrefix')
                   keys == CategoryKeys(prefix, selection.category)
               IN  /\ selection.checked =>
                          /\ IsAllPartsInCategorySelected(selectedParts', prefix,
                                                          selection.category)
                          /\ keys \subseteq DOMAIN selectedParts'
                          /\ \A k \in keys \cap DOMAIN selectedParts :
                                 selectedParts'[k].qty = selectedParts[k].qty
                   /\ ~selection.checked => keys \cap DOMAIN selectedParts' = {}
                   /\ DOMAIN selectedParts' \subseteq DOMAIN selectedParts \cup keys
                   /\ \A k \in DOMAIN selectedParts \ keys :
                          /\ k \in DOMAIN selectedParts'
                          /\ selectedParts'[k] = selectedParts[k]
      ]_vars

\* a category of two repair-types with parts selected in bulk while an entry
\* of another category and an entry of its own with a set quantity were there
C16_Witness ==
    /\ IsNotification
    /\ ChangedToTruthy(last.changes.categorySelection)
    /\ ~last.changes.categories.changed
    /\ BulkSelection.checked
    /\ HasRepairTypes(BulkSelection.category)
    /\ Cardinality(CategoryKeys(Prefix, BulkSelection.category)) >= 2
    /\ \E j \in DOMAIN selectedParts \ CategoryKeys(Prefix, BulkSelection.category) :
           selectedParts[j].qty = 0
    /\ \E k \in CategoryKeys(Prefix, BulkSelection.category) :
           /\ k \in DOMAIN selectedParts
           /\ selectedParts[k].qty = 0
    /\ \E k \in CategoryKeys(Prefix, BulkSelection.category) :
           /\ k \in DOMAIN selectedParts
           /\ selectedParts[k].qty = 1

-----------------------------------------------------------------------------
(* C17: after a notification that changes the categories to an absent       *)
(* value, the matrix has no cell and the column order is empty, as after a  *)
(* build from an empty list.                                                *)
MatrixHasNoCell ==
    \/ ~Truthy(partsMatrix)
    \/ \A torId \in KnownTorIds, categoryId \in KnownCategoryIds :
           ~HasCell(torId, categoryId)

ColumnsEmpty == ~Truthy(torColumns) \/ ValueOf(torColumns) = <<>>

C17_AbsentCatalogBuildsEmpty ==
    (/\ IsNotification
     /\ last.changes.categories.changed
     /\ ~Truthy(last.changes.categories.currentValue))
        => MatrixHasNoCell /\ ColumnsEmpty

-----------------------------------------------------------------------------
(* C18: the payload of showDetails pairs each included part with the        *)
(* checked-registry entry under its key, or with nothing when the key is    *)
(* not there, and each excluded part with its entry with quantity 1, or     *)
(* with nothing when the key is not there.                                  *)
IsDetails == last.op = "showDetails"

DetailsKey(part) == GetUKey(Prefix, last.category.categoryId, last.torId, part)

C18_DetailsPayload ==
    IsDetails =>
        /\ \A i \in 1..Len(last.parts.included) :
               LET uKey == DetailsKey(last.parts.included[i])
               IN  last.partsWithInfo.included[i] =
                       IF uKey \in DOMAIN checkedParts
                       THEN Some(checkedParts[uKey]) ELSE undefined
        /\ \A i \in 1..Len(last.parts.excluded) :
               LET uKey == DetailsKey(last.parts.excluded[i])
               IN  last.partsWithInfo.excluded[i] =
                       IF uKey \in DOMAIN checkedParts
                       THEN Some([qty |-> 1] @@ checkedParts[uKey]) ELSE undefined

-----------------------------------------------------------------------------
(* C19: a toggle, which hands its parts to updateSelectedParts under        *)
(* (categoryId, torId), changes the selected registry at the keys of those  *)
(* parts only: every entry under another key is the same before and after,  *)
(* no other key appears, and the checked registry is the same.              *)
C19_OnlyToggledKeysChange ==
    [][ last'.op = "onPartSelectionChanged" =>
            LET parts == ToggledParts(last'.part, last'.allPartsForSelectedTOR)
                keys == {GetUKey(PrefixText(uKeyPrefix'), last'.category.categoryId,
                                 last'.torId, parts[i]) : i \in 1..Len(parts)}
            IN  /\ DOMAIN selectedParts' \subseteq DOMAIN selectedParts \cup keys
                /\ \A k \in DOMAIN selectedParts \ keys :
                       /\ k \in DOMAIN selectedParts'
                       /\ selectedParts'[k] = selectedParts[k]
                /\ checkedParts' = checkedParts
      ]_vars

\* a toggle made while an entry of another repair-type was selected and
\* prices were overlaid
C19_Witness ==
    /\ IsToggle
    /\ checkedParts # EmptyMap
    /\ \E k \in DOMAIN selectedParts :
           /\ selectedParts[k].torId # last.torId
           /\ \A i \in 1..Len(last.previous) : k # ToggledKey(i)

-----------------------------------------------------------------------------
(* C20: every entry of the selected registry records the categoryId, torId, *)
(* partNumber and sOS its key was computed from: the key of the entry's     *)
(* own fields, under the prefix it was stored with, is the key it is        *)
(* stored under.                                                            *)
KnownPrefixTexts == {PrefixText(undefined)} \cup Prefixes

C20_EntryMatchesKey ==
    \A uKey \in DOMAIN selectedParts :
        \E prefix \in KnownPrefixTexts :
            GetUKey(prefix, selectedParts[uKey].categoryId, selectedParts[uKey].torId,
                    selectedParts[uKey]) = uKey

=============================================================================
